---------------------------- MODULE Spec2Model ----------------------------
(***************************************************************************)
(* The agent orchestration loop of server/resources/engine.ts (class       *)
(* engine, method run, the revision that takes a fileId) together with the *)
(* helpers it calls and the calendar provider's result strings.            *)
(*                                                                         *)
(* Strings are sequences of tokens.  The tokens that matter to the code's  *)
(* regular expressions are kept apart: OPEN stands for the literal text    *)
(* "[File attached: ", CLOSE for "]", SP for one white-space character,    *)
(* DOLLAR for "$".  An absent (undefined / null) string is the empty       *)
(* sequence: the code only ever tests such values for truthiness, and the  *)
(* empty string is falsy too.                                              *)
(***************************************************************************)
EXTENDS Integers, Sequences, FiniteSets, TLC

----------------------------------------------------------------------------
(* Bounds of the exploration *)

\* longest history the caller passes to run
MaxHist == 3

\* most output items the completion service emits over one run
MaxOutputs == 3

\* most completion-service calls of one run the exploration follows
MaxCalls == 4

\* engine.ts:569
MAX_AGENT_LOOP == 3

Runs == {1, 2}

----------------------------------------------------------------------------
(* Tokens and strings *)

OPEN == "[File attached: "
CLOSE == "]"
SP == " "
DOLLAR == "$"
Undef == "undefined"

Last(s) == s[Len(s)]

\* The array methods take the callback's verdicts as a sequence of booleans,
\* hit[i] being the verdict on element i.

\* a search that stops at the first match from the front
FindLastIndexFromFront(hit) ==
    LET hits == {i \in 1..Len(hit) : hit[i]}
    IN IF hits = {} THEN 0 ELSE CHOOSE i \in hits : \A j \in hits : i <= j
\* Array.prototype.findLastIndex, 1-based, 0 when nothing matches
FindLastIndex(hit) ==
    LET hits == {i \in 1..Len(hit) : hit[i]}
    IN IF hits = {} THEN 0 ELSE CHOOSE i \in hits : \A j \in hits : j <= i

\* Array.prototype.findIndex, 1-based, 0 when nothing matches
FindIndex(hit) ==
    LET hits == {i \in 1..Len(hit) : hit[i]}
    IN IF hits = {} THEN 0 ELSE CHOOSE i \in hits : \A j \in hits : i <= j

\* Array.prototype.filter: the indices kept, ascending
FilterIdx(hit) ==
    LET F[i \in 0..Len(hit)] ==
            IF i = 0 THEN <<>>
            ELSE IF hit[i] THEN Append(F[i - 1], i) ELSE F[i - 1]
    IN F[Len(hit)]

\* the match of /\[File attached: ([^\]]+)\]/ starting at token i: the index
\* of the closing bracket, 0 when the pattern does not match at i
MarkerEndAt(text, i) ==
    IF i > Len(text) \/ text[i] # OPEN THEN 0
    ELSE LET closes == {j \in (i + 1)..Len(text) : text[j] = CLOSE}
         IN IF closes = {} THEN 0
            ELSE LET j == CHOOSE c \in closes : \A d \in closes : c <= d
                 IN IF j >= i + 2 THEN j ELSE 0

\* leftmost position the marker pattern matches at, 0 when there is no match
MarkerStart(text) ==
    LET starts == {i \in 1..Len(text) : MarkerEndAt(text, i) # 0}
    IN IF starts = {} THEN 0 ELSE CHOOSE i \in starts : \A j \in starts : i <= j

\* extractFileIdFromContent: the captured id, <<>> (null) when no match
extractFileIdFromContent(content) ==
    LET i == MarkerStart(content)
    IN IF i = 0 THEN <<>> ELSE SubSeq(content, i + 1, MarkerEndAt(content, i) - 1)

\* how many white-space tokens follow position j (the greedy \s*)
SpacesAfter(text, j) ==
    LET stops == {k \in (j + 1)..(Len(text) + 1) : k = Len(text) + 1 \/ text[k] # SP}
    IN (CHOOSE k \in stops : \A m \in stops : k <= m) - j - 1

\* userInput.replace(/\[File attached: [^\]]+\]\s*/, ''): first match only
StripMarker(text) ==
    LET i == MarkerStart(text)
    IN IF i = 0 THEN text
       ELSE LET j == MarkerEndAt(text, i)
                k == j + SpacesAfter(text, j)
            IN SubSeq(text, 1, i - 1) \o SubSeq(text, k + 1, Len(text))

ContainsMarker(text) == MarkerStart(text) # 0

----------------------------------------------------------------------------
(* Prompt template resolution *)

\* system-prompt.txt: a template holding the placeholder $dateTime twice
rawPrompt == <<"Voce e um assistente. ", DOLLAR, "dateTime", " Agende. ", DOLLAR, "dateTime">>

\* getSaoPauloTodayInfo, read in the k-th iteration of the loop: the clock has
\* moved on since the iteration before
getSaoPauloTodayInfo(k) ==
    <<"Hoje e segunda, horario atual: 10:0", ToString(k), ", aqui em Sao Paulo.">>

\* new RegExp(`\\$${variable}`, 'g'): the source text of the pattern is a
\* backslash-escaped dollar followed by the variable's own text.  An escaped
\* dollar matches the token DOLLAR; an unescaped dollar in the variable's text
\* is the end-of-input assertion; any other token matches itself.
PatternOf(variable) ==
    <<[lit |-> DOLLAR, anchor |-> FALSE]>> \o
    [i \in 1..Len(variable) |->
        IF variable[i] = DOLLAR THEN [lit |-> "", anchor |-> TRUE]
        ELSE [lit |-> variable[i], anchor |-> FALSE]]

\* the pattern matches text at token position i: the position after the match,
\* 0 when it does not match
RECURSIVE MatchFrom(_, _, _, _)
MatchFrom(pat, p, text, i) ==
    IF p > Len(pat) THEN i
    ELSE IF pat[p].anchor
         THEN IF i = Len(text) + 1 THEN MatchFrom(pat, p + 1, text, i) ELSE 0
         ELSE IF i <= Len(text) /\ text[i] = pat[p].lit
              THEN MatchFrom(pat, p + 1, text, i + 1)
              ELSE 0

\* String.prototype.replace with a global pattern and a replacer function
RECURSIVE ReplaceAllFrom(_, _, _, _)
ReplaceAllFrom(pat, text, i, value) ==
    IF i > Len(text) THEN <<>>
    ELSE LET e == MatchFrom(pat, 1, text, i)
         IN IF e > i THEN value \o ReplaceAllFrom(pat, text, e, value)
            ELSE <<text[i]>> \o ReplaceAllFrom(pat, text, i + 1, value)

replaceVariable(text, variable, dynamicValue) ==
    ReplaceAllFrom(PatternOf(variable), text, 1, dynamicValue)

finalPromptAt(k) ==
    replaceVariable(rawPrompt, <<DOLLAR, "dateTime">>, getSaoPauloTodayInfo(k))

----------------------------------------------------------------------------
(* History entries *)

StringContent(t) == [kind |-> "string", text |-> t, parts |-> <<>>]
ArrayContent(ps) == [kind |-> "array", text |-> <<>>, parts |-> ps]
NoContent == [kind |-> Undef, text |-> <<>>, parts |-> <<>>]

FilePart(id) == [type |-> "input_file", file_id |-> id, text |-> <<>>]
TextPart(t) == [type |-> "input_text", file_id |-> <<>>, text |-> t]

\* { role, content }
Message(role, content) ==
    [role |-> role, type |-> Undef, content |-> content,
     call_id |-> 0, name |-> Undef, arguments |-> <<>>, output |-> <<>>]

\* { type: "function_call", call_id, name, arguments }
FunctionCall(id, name, arguments) ==
    [role |-> Undef, type |-> "function_call", content |-> NoContent,
     call_id |-> id, name |-> name, arguments |-> arguments, output |-> <<>>]

\* { type: "function_call_output", call_id, output }
FunctionCallOutput(id, output) ==
    [role |-> Undef, type |-> "function_call_output", content |-> NoContent,
     call_id |-> id, name |-> Undef, arguments |-> <<>>, output |-> output]

IsSystem(m) == m.role = "system"
IsUser(m) == m.role = "user"
IsAssistant(m) == m.role = "assistant"
\* a filter that drops nothing
KeepsEverything(m) == TRUE
NotSystem(m) == m.role # "system"
IsInputText(c) == c.type = "input_text"

\* the callbacks' verdicts over an array
UserAt(h) == [i \in 1..Len(h) |-> IsUser(h[i])]
NotSystemAt(h) == [i \in 1..Len(h) |-> NotSystem(h[i])]
InputTextAt(parts) == [i \in 1..Len(parts) |-> IsInputText(parts[i])]

----------------------------------------------------------------------------
(* Reconciliation of the history with the current user turn *)

\* a new conversation whose user message puts the text before the file
NewConversationTextFirst(userInput, fileId) ==
    LET extractedFileId == extractFileIdFromContent(userInput)
        actualFileId == IF fileId # <<>> THEN fileId ELSE extractedFileId
        cleanUserInput == IF extractedFileId # <<>> THEN StripMarker(userInput) ELSE userInput
    IN IF actualFileId # <<>>
       THEN Message("user", ArrayContent(<<TextPart(cleanUserInput), FilePart(actualFileId)>>))
       ELSE Message("user", StringContent(userInput))
\* the user message of a new conversation (input.length === 0)
NewConversationUserMessage(userInput, fileId) ==
    LET extractedFileId == extractFileIdFromContent(userInput)
        actualFileId == IF fileId # <<>> THEN fileId ELSE extractedFileId
        cleanUserInput == IF extractedFileId # <<>> THEN StripMarker(userInput) ELSE userInput
    IN IF actualFileId # <<>>
       THEN Message("user", ArrayContent(<<FilePart(actualFileId), TextPart(cleanUserInput)>>))
       ELSE Message("user", StringContent(userInput))

\* an update that lets the marker's id win over the explicit file id
UpdatedUserContentMarkerFirst(old, userInput, fileId) ==
    LET extractedFileId == extractFileIdFromContent(userInput)
        actualFileId == IF extractedFileId # <<>> THEN extractedFileId ELSE fileId
        cleanUserInput == IF extractedFileId # <<>> THEN StripMarker(userInput) ELSE userInput
    IN IF actualFileId # <<>>
       THEN ArrayContent(<<FilePart(actualFileId), TextPart(cleanUserInput)>>)
       ELSE StringContent(userInput)
\* the content the last user message is given (lastUserMsg.content = ...)
UpdatedUserContent(old, userInput, fileId) ==
    LET extractedFileId == extractFileIdFromContent(userInput)
        actualFileId == IF fileId # <<>> THEN fileId ELSE extractedFileId
        cleanUserInput == IF extractedFileId # <<>> THEN StripMarker(userInput) ELSE userInput
    IN IF actualFileId # <<>>
       THEN ArrayContent(<<FilePart(actualFileId), TextPart(cleanUserInput)>>)
       ELSE IF old.kind = "string" THEN StringContent(userInput)
       ELSE IF old.kind = "array"
            THEN LET textIndex == FindIndex(InputTextAt(old.parts))
                 IN IF textIndex > 0
                    THEN ArrayContent([old.parts EXCEPT ![textIndex].text = userInput])
                    ELSE ArrayContent(Append(old.parts, TextPart(userInput)))
            ELSE StringContent(userInput)

\* the user message pushed when the history holds no user message
AppendedUserMessage(userInput, fileId) ==
    IF fileId # <<>>
    THEN Message("user", ArrayContent(<<FilePart(fileId), TextPart(userInput)>>))
    ELSE Message("user", StringContent(userInput))

\* a rebuild that keeps the user and assistant turns only
RebuildTurnsOnly(in, finalPrompt) ==
    LET keep == FilterIdx([i \in 1..Len(in) |-> in[i].role \in {"user", "assistant"}])
    IN <<Message("system", StringContent(finalPrompt))>> \o [i \in 1..Len(keep) |-> in[keep[i]]]
\* [{ role: "system", content: finalPrompt }, ...input.filter(msg => msg.role !== "system")]
RebuildWithSystem(in, finalPrompt) ==
    LET keep == FilterIdx(NotSystemAt(in))
    IN <<Message("system", StringContent(finalPrompt))>> \o [i \in 1..Len(keep) |-> in[keep[i]]]

\* a reconciliation that pushes the user turn whether or not one is there
ReconcileAlwaysPushing(in, org, cal, userInput, fileId, finalPrompt) ==
    IF Len(in) = 0
    THEN [input |-> <<Message("system", StringContent(finalPrompt)),
                      NewConversationUserMessage(userInput, fileId)>>,
          origin |-> <<0, 0>>,
          caller |-> cal]
    ELSE LET keep == FilterIdx(NotSystemAt(in))
         IN [input |-> Append(RebuildWithSystem(in, finalPrompt),
                              AppendedUserMessage(userInput, fileId)),
             origin |-> Append(<<0>> \o [i \in 1..Len(keep) |-> org[keep[i]]], 0),
             caller |-> cal]

\* One pass of the "Define input messages" block.  in is the working array,
\* org[i] the position in the caller's array of the object in[i] refers to (0
\* for an object the run created), cal the caller's array as the caller sees it.
\* The rebuilt array is a new array holding the same message objects, so a
\* write to lastUserMsg.content is a write to the caller's object.
Reconcile(in, org, cal, userInput, fileId, finalPrompt) ==
    IF Len(in) = 0
    THEN [input |-> <<Message("system", StringContent(finalPrompt)),
                      NewConversationUserMessage(userInput, fileId)>>,
          origin |-> <<0, 0>>,
          caller |-> cal]
    ELSE LET keep == FilterIdx(NotSystemAt(in))
             rebuilt == RebuildWithSystem(in, finalPrompt)
             rebuiltOrg == <<0>> \o [i \in 1..Len(keep) |-> org[keep[i]]]
             lastUserMsgIndex == FindLastIndex(UserAt(rebuilt))
         IN IF lastUserMsgIndex > 0
            THEN LET content == UpdatedUserContent(rebuilt[lastUserMsgIndex].content,
                                                   userInput, fileId)
                     k == rebuiltOrg[lastUserMsgIndex]
                 IN [input |-> [rebuilt EXCEPT ![lastUserMsgIndex].content = content],
                     origin |-> rebuiltOrg,
                     caller |-> IF k > 0 THEN [cal EXCEPT ![k].content = content] ELSE cal]
            ELSE [input |-> Append(rebuilt, AppendedUserMessage(userInput, fileId)),
                  origin |-> Append(rebuiltOrg, 0),
                  caller |-> cal]

----------------------------------------------------------------------------
(* Tool arguments and tools *)

\* JSON.parse of an arguments payload, for the payloads the completion service
\* sends here: the literal null, a number, or a flat object
\*   { key : value , key : value ... }
\* of string values.  Anything else is a SyntaxError.
IsFlatObject(t) ==
    /\ Len(t) >= 2
    /\ t[1] = "{"
    /\ t[Len(t)] = "}"
    /\ \/ Len(t) = 2
       \/ /\ (Len(t) - 2) % 4 = 3
          /\ \A i \in 2..(Len(t) - 1) :
                CASE (i - 2) % 4 = 0 -> t[i] \notin {"{", "}", ":", ","}
                  [] (i - 2) % 4 = 1 -> t[i] = ":"
                  [] (i - 2) % 4 = 2 -> t[i] \notin {"{", "}", ":", ","}
                  [] OTHER -> t[i] = ","

JSONParse(t) ==
    IF t = <<"null">> THEN [ok |-> TRUE, kind |-> "null", src |-> t]
    ELSE IF t = <<"7">> THEN [ok |-> TRUE, kind |-> "number", src |-> t]
    ELSE IF IsFlatObject(t) THEN [ok |-> TRUE, kind |-> "object", src |-> t]
    ELSE [ok |-> FALSE, kind |-> "SyntaxError", src |-> t]

\* args.key: the value's token, Undef for a missing key or a non-object
GetField(args, key) ==
    LET t == args.src
        at == {i \in 2..(Len(t) - 1) : (i - 2) % 4 = 0 /\ t[i] = key}
    IN IF args.kind # "object" \/ at = {} THEN Undef
       ELSE t[(CHOOSE i \in at : \A j \in at : j <= i) + 2]

RegisteredTools ==
    {"get_portfolio_info", "schedule_meeting", "get_upcoming_events",
     "find_available_slots", "cancel_meeting"}

\* the case arms read a property of args before anything else: a TypeError
\* when args is null
ArgsAccessThrows(name, args) == name \in RegisteredTools /\ args.kind = "null"

\* the outcomes a tool can have
ToolOutcomes(name) ==
    IF name = "get_portfolio_info" THEN {"ok"} ELSE {"ok", "error"}

ErrorMessage == "Network error"

\* the string a registered tool resolves to; the calendar provider catches every
\* failure and returns it as a string
ToolResult(name, args, outcome) ==
    CASE name = "get_portfolio_info" ->
            <<"Portfolio: ", GetField(args, "portfolio")>>
      [] name = "schedule_meeting" ->
            IF outcome = "ok"
            THEN <<"(ok) Meeting scheduled successfully!", GetField(args, "title")>>
            ELSE <<"(x) Error scheduling meeting: ", ErrorMessage>>
      [] name = "get_upcoming_events" ->
            IF outcome = "ok"
            THEN <<"Upcoming events">>
            ELSE <<"(x) Error getting events: ", ErrorMessage>>
      [] name = "find_available_slots" ->
            IF outcome = "ok"
            THEN <<"Available time slots for ", GetField(args, "date")>>
            ELSE <<"(x) Error finding available slots: ", ErrorMessage>>
      [] name = "cancel_meeting" ->
            IF outcome = "ok"
            THEN <<"(ok) Meeting cancelled successfully! Event ID: ", GetField(args, "eventId")>>
            ELSE <<"(x) Error cancelling meeting: ", ErrorMessage>>

\* an error string that leaves the tool's name out
NotImplementedUnnamed(name) == <<"ERROR: tool not implemented.">>
\* the default arm of the switch
NotImplemented(name) == <<"ERROR: tool ", name, " not implemented.">>

----------------------------------------------------------------------------
(* Output items of the completion service *)

OutputText(t) == [type |-> "output_text", text |-> t]
Refusal == [type |-> "refusal", text |-> <<>>]

MessageItem(parts) ==
    [type |-> "message", content |-> parts, call_id |-> 0, name |-> Undef, arguments |-> <<>>]
ReasoningItem ==
    [type |-> "reasoning", content |-> <<>>, call_id |-> 0, name |-> Undef, arguments |-> <<>>]
FunctionCallItem(name, arguments) ==
    [type |-> "function_call", content |-> <<>>, call_id |-> 0, name |-> name,
     arguments |-> arguments]
\* an item type the loop has no branch for
OtherItem ==
    [type |-> "web_search_call", content |-> <<>>, call_id |-> 0, name |-> Undef,
     arguments |-> <<>>]

IsFunctionCallItem(o) == o.type = "function_call"
IsOutputText(c) == c.type = "output_text"
FunctionCallAt(resp) == [i \in 1..Len(resp) |-> IsFunctionCallItem(resp[i])]
OutputTextAt(parts) == [i \in 1..Len(parts) |-> IsOutputText(parts[i])]

ValidArgs == <<"{", "eventId", ":", "evt_1", "}">>
NullArgs == <<"null">>
MalformedArgs == <<"{", "eventId">>
ArgPayloads == {ValidArgs, NullArgs, MalformedArgs}

\* the tool names the service asks for here: one registered, one not
CallNames == {"cancel_meeting", "send_email"}

Items ==
    {MessageItem(<<OutputText(<<"Claro!">>)>>), MessageItem(<<Refusal>>),
     ReasoningItem, OtherItem}
    \cup {FunctionCallItem(n, a) : n \in CallNames, a \in ArgPayloads}

\* the call ids the service mints are unique: the n-th function call it emits
\* to run r carries id 100 * r + n
CallIdOf(r, n) == 100 * r + n

NumFunctionCalls(resp) == Len(FilterIdx(FunctionCallAt(resp)))

RECURSIVE CallsInLog(_)
CallsInLog(lg) ==
    IF lg = <<>> THEN 0 ELSE NumFunctionCalls(Last(lg)) + CallsInLog(SubSeq(lg, 1, Len(lg) - 1))

\* the response as the service sends it: items, with a fresh call_id on each
\* function call, minted counts the ids minted before
Minted(r, items, minted) ==
    [i \in 1..Len(items) |->
        IF IsFunctionCallItem(items[i])
        THEN [items[i] EXCEPT !.call_id =
                 CallIdOf(r, minted + NumFunctionCalls(SubSeq(items, 1, i)))]
        ELSE items[i]]

\* no invocation is pushed ahead of the for loop
FunctionCallEntriesNone(resp) == <<>>
\* the function calls pushed last first
FunctionCallEntriesReversed(resp) ==
    LET fcs == FilterIdx(FunctionCallAt(resp))
        n == Len(fcs)
    IN [i \in 1..n |->
           FunctionCall(resp[fcs[n + 1 - i]].call_id, resp[fcs[n + 1 - i]].name,
                        resp[fcs[n + 1 - i]].arguments)]
\* the entries the run pushes for a response before it handles any item
\* (response.output.filter(type === 'function_call'), pushed in order)
FunctionCallEntries(resp) ==
    LET fcs == FilterIdx(FunctionCallAt(resp))
    IN [i \in 1..Len(fcs) |->
           FunctionCall(resp[fcs[i]].call_id, resp[fcs[i]].name, resp[fcs[i]].arguments)]

\* the assistant messages a message item's parts give, in order
AssistantMessages(parts) ==
    LET texts == FilterIdx(OutputTextAt(parts))
    IN [i \in 1..Len(texts) |-> Message("assistant", StringContent(parts[texts[i]].text))]

HasOutputText(o) == o.type = "message" /\ FindIndex(OutputTextAt(o.content)) > 0
IsUnhandledType(o) == o.type \notin {"message", "reasoning", "function_call"}

Zeros(n) == [i \in 1..n |-> 0]

----------------------------------------------------------------------------
(* State *)

VARIABLES
    pc,           \* where each run is: idle, loop, await, classify, tool, returned, thrown
    userInput,    \* run's userInput argument
    fileId,       \* run's fileId argument, <<>> when absent
    given,        \* the value of the history argument when run was called
    caller,       \* the caller's array, as the caller sees it now
    input,        \* the run's working array
    origin,       \* origin[r][i]: which object of caller[r] input[r][i] is, 0 if none
    loopAgent,
    loopCounter,
    response,     \* response.output of the completion call being handled
    idx,          \* position of the for loop in response.output
    budget,       \* output items the service may still emit to the run
    calls,        \* completion-service calls the run has made
    log,          \* the responses the run has received, in order
    started,      \* call ids of the tools the run has started, in order
    toolResults,  \* the strings the tools have resolved to, in order
    error,        \* what the run threw, "none" otherwise
    reply,        \* the content the route stores as the reply, NoContent before
    menu          \* the output items the completion service draws from

vars == <<pc, userInput, fileId, given, caller, input, origin, loopAgent, loopCounter,
          response, idx, budget, calls, log, started, toolResults, error, reply, menu>>

\* the item the for loop is at
Current(r) == response[r][idx[r]]

AtItem(r) == pc[r] = "classify" /\ idx[r] <= Len(response[r])
\* at the while header: before the first iteration or after the for loop
AtLoopHeader(r) == pc[r] = "loop" \/ (pc[r] = "classify" /\ idx[r] > Len(response[r]))

----------------------------------------------------------------------------
(* Inputs *)

PlainText == <<"hi">>
MarkedText == <<OPEN, "f2", CLOSE, SP, "hi">>
TwoMarkers == <<OPEN, "f2", CLOSE, SP, "see", OPEN, "f3", CLOSE>>
UserTexts == {PlainText, MarkedText, TwoMarkers}

FileIds == {<<>>, <<"f1">>}

OldSystem == Message("system", StringContent(<<"old instructions">>))
OldUser == Message("user", StringContent(<<"earlier question">>))
OldUserFile == Message("user", ArrayContent(<<FilePart(<<"f0">>), TextPart(<<"earlier question">>)>>))
OldAssistant == Message("assistant", StringContent(<<"earlier answer">>))
HistMsgs == {OldSystem, OldUser, OldUserFile, OldAssistant}

Histories == UNION {[1..n -> HistMsgs] : n \in 0..MaxHist}

\* the histories the route hands over: user and assistant turns, or nothing
RouteHistories == {<<>>, <<OldUser, OldAssistant>>}

\* run r is called with history h, text t, file id f; the service will emit at
\* most b items, drawn from m
Called(called, h, t, f, b, m) ==
    /\ pc = [r \in Runs |-> IF r \in called THEN "loop" ELSE "idle"]
    /\ userInput = [r \in Runs |-> IF r \in called THEN t[r] ELSE <<>>]
    /\ fileId = [r \in Runs |-> IF r \in called THEN f[r] ELSE <<>>]
    /\ given = [r \in Runs |-> IF r \in called THEN h[r] ELSE <<>>]
    /\ caller = given
    /\ input = given
    /\ origin = [r \in Runs |-> [i \in 1..Len(given[r]) |-> i]]
    /\ loopAgent = [r \in Runs |-> TRUE]
    /\ loopCounter = [r \in Runs |-> 0]
    /\ response = [r \in Runs |-> <<>>]
    /\ idx = [r \in Runs |-> 1]
    /\ budget = [r \in Runs |-> IF r \in called THEN b ELSE 0]
    /\ calls = [r \in Runs |-> 0]
    /\ log = [r \in Runs |-> <<>>]
    /\ started = [r \in Runs |-> <<>>]
    /\ toolResults = [r \in Runs |-> <<>>]
    /\ error = [r \in Runs |-> "none"]
    /\ reply = [r \in Runs |-> NoContent]
    /\ menu = m

\* one run, a history the route can hand over, a talkative service
Init ==
    \E h \in RouteHistories, t \in {PlainText, MarkedText}, f \in {<<>>} :
        Called({1}, [r \in Runs |-> h], [r \in Runs |-> t], [r \in Runs |-> f], MaxOutputs, Items)

\* one run, any history, a service that emits at most one item
InitReconcile ==
    \E h \in Histories, t \in UserTexts, f \in FileIds :
        Called({1}, [r \in Runs |-> h], [r \in Runs |-> t], [r \in Runs |-> f], 1, Items)

\* two runs on one engine, each with a history of its own (the route builds a
\* fresh array of fresh objects per request), the same text, a terse service
InitPair ==
    \E h1 \in RouteHistories, h2 \in RouteHistories, t \in {PlainText, MarkedText} :
        Called({1, 2}, <<h1, h2>>, [r \in Runs |-> t], [r \in Runs |-> <<>>], 1, Items)

\* one run, a history the route can hand over, a service that emits at most
\* two items
InitTermination ==
    \E h \in RouteHistories, t \in {PlainText} :
        Called({1}, [r \in Runs |-> h], [r \in Runs |-> t], [r \in Runs |-> <<>>], 2, Items)

\* one run on a history of two turns, a talkative service
InitLoop ==
    Called({1}, [r \in Runs |-> <<OldUser, OldAssistant>>], [r \in Runs |-> PlainText],
           [r \in Runs |-> <<>>], MaxOutputs, Items)

\* a message item whose one output_text part is the empty string
EmptyTextItem == MessageItem(<<OutputText(<<>>)>>)

\* a request to the route, with or without a file; the service emits at most
\* two items and may answer with an empty text
InitRoute ==
    \E h \in RouteHistories, t \in {PlainText, MarkedText} :
        Called({1}, [r \in Runs |-> h], [r \in Runs |-> t], [r \in Runs |-> <<>>], 2,
               Items \cup {EmptyTextItem})

----------------------------------------------------------------------------
(* Steps of run *)

\* a loop with no cap: while (loopAgent)
ContinueLoopNoCap(agent, counter) == agent
\* a loop bound that is off by one
ContinueLoopOnceMore(agent, counter) == agent /\ counter <= MAX_AGENT_LOOP
\* a loop that stops one iteration early
ContinueLoopOnceLess(agent, counter) == agent /\ counter < MAX_AGENT_LOOP - 1
\* while (loopAgent && loopCounter < MAX_AGENT_LOOP)
ContinueLoop(agent, counter) == agent /\ counter < MAX_AGENT_LOOP

\* one more iteration, up to the point where openai.responses.create is awaited
\* (the exploration follows a run for MaxCalls calls and no further)
Iterate(r) ==
    /\ AtLoopHeader(r)
    /\ ContinueLoop(loopAgent[r], loopCounter[r])
    /\ calls[r] < MaxCalls
    /\ LET rec == Reconcile(input[r], origin[r], caller[r], userInput[r], fileId[r],
                            finalPromptAt(loopCounter[r] + 1))
       IN /\ input' = [input EXCEPT ![r] = rec.input]
          /\ origin' = [origin EXCEPT ![r] = rec.origin]
          /\ caller' = [caller EXCEPT ![r] = rec.caller]
    /\ loopCounter' = [loopCounter EXCEPT ![r] = @ + 1]
    /\ calls' = [calls EXCEPT ![r] = @ + 1]
    /\ pc' = [pc EXCEPT ![r] = "await"]
    /\ UNCHANGED <<userInput, fileId, given, loopAgent, response, idx, budget, log,
                   started, toolResults, error,
                   reply, menu>>

\* the text the route stores when it finds nothing to store
Apology == StringContent(<<"I apologize, but I couldn't generate a response at the moment.">>)

\* JavaScript truthiness of a content: undefined and the empty string are falsy
IsTruthy(c) == c.kind = "array" \/ (c.kind = "string" /\ c.text # <<>>)

AssistantAt(h) == [i \in 1..Len(h) |-> IsAssistant(h[i])]

\* a route that answers with the first assistant message of the result
RouteReplyFirst(engineResult) ==
    LET at == FindIndex(AssistantAt(engineResult))
    IN IF at = 0 THEN Apology
       ELSE IF IsTruthy(engineResult[at].content) THEN engineResult[at].content
       ELSE Apology
\* engineResult.filter(msg => msg.role === "assistant").pop()?.content || apology
RouteReply(engineResult) ==
    LET assistants == FilterIdx(AssistantAt(engineResult))
    IN IF Len(assistants) = 0 THEN Apology
       ELSE IF IsTruthy(engineResult[Last(assistants)].content)
            THEN engineResult[Last(assistants)].content
       ELSE Apology

\* the loop condition fails: return input; the caller (the route) takes the
\* reply out of the returned array and hands it to the storage
Return(r) ==
    /\ AtLoopHeader(r)
    /\ ~ContinueLoop(loopAgent[r], loopCounter[r])
    /\ pc' = [pc EXCEPT ![r] = "returned"]
    /\ reply' = [reply EXCEPT ![r] = RouteReply(input[r])]
    /\ UNCHANGED <<userInput, fileId, given, caller, input, origin, loopAgent, loopCounter,
                   response, idx, budget, calls, log, started, toolResults, error, menu>>

\* an engine that keeps the working array in a field all its runs push to
CompleteSharedArray(r) ==
    /\ pc[r] = "await"
    /\ \E n \in 0..budget[r] : \E items \in [1..n -> menu] :
          LET resp == Minted(r, items, CallsInLog(log[r]))
              fcs == FunctionCallEntries(resp)
          IN /\ response' = [response EXCEPT ![r] = resp]
             /\ log' = [log EXCEPT ![r] = Append(@, resp)]
             /\ input' = [q \in Runs |-> input[q] \o fcs]
             /\ origin' = [q \in Runs |-> origin[q] \o Zeros(Len(fcs))]
             /\ budget' = [budget EXCEPT ![r] = @ - n]
    /\ idx' = [idx EXCEPT ![r] = 1]
    /\ pc' = [pc EXCEPT ![r] = "classify"]
    /\ UNCHANGED <<userInput, fileId, given, caller, loopAgent, loopCounter, calls,
                   started, toolResults, error,
                   reply, menu>>

\* openai.responses.create resolves; the function calls of the response are
\* pushed, and the for loop over response.output begins
Complete(r) ==
    /\ pc[r] = "await"
    /\ \E n \in 0..budget[r] : \E items \in [1..n -> menu] :
          LET resp == Minted(r, items, CallsInLog(log[r]))
              fcs == FunctionCallEntries(resp)
          IN /\ response' = [response EXCEPT ![r] = resp]
             /\ log' = [log EXCEPT ![r] = Append(@, resp)]
             /\ input' = [input EXCEPT ![r] = @ \o fcs]
             /\ origin' = [origin EXCEPT ![r] = @ \o Zeros(Len(fcs))]
             /\ budget' = [budget EXCEPT ![r] = @ - n]
    /\ idx' = [idx EXCEPT ![r] = 1]
    /\ pc' = [pc EXCEPT ![r] = "classify"]
    /\ UNCHANGED <<userInput, fileId, given, caller, loopAgent, loopCounter, calls,
                   started, toolResults, error,
                   reply, menu>>

\* openai.responses.create rejects: nothing in run catches it
CompleteFails(r) ==
    /\ pc[r] = "await"
    /\ pc' = [pc EXCEPT ![r] = "thrown"]
    /\ error' = [error EXCEPT ![r] = "ServiceError"]
    /\ UNCHANGED <<userInput, fileId, given, caller, input, origin, loopAgent, loopCounter,
                   response, idx, budget, calls, log, started, toolResults,
                   reply, menu>>

\* a message branch that ends the loop whether or not the item holds text
HandleMessageAlwaysEnds(r) ==
    /\ AtItem(r)
    /\ Current(r).type = "message"
    /\ LET msgs == AssistantMessages(Current(r).content)
       IN /\ input' = [input EXCEPT ![r] = @ \o msgs]
          /\ origin' = [origin EXCEPT ![r] = @ \o Zeros(Len(msgs))]
    /\ loopAgent' = [loopAgent EXCEPT ![r] = FALSE]
    /\ idx' = [idx EXCEPT ![r] = @ + 1]
    /\ UNCHANGED <<pc, userInput, fileId, given, caller, loopCounter, response, budget,
                   calls, log, started, toolResults, error, reply, menu>>

\* a message branch that forgets to clear the loop flag
HandleMessageKeepsLooping(r) ==
    /\ AtItem(r)
    /\ Current(r).type = "message"
    /\ LET msgs == AssistantMessages(Current(r).content)
       IN /\ input' = [input EXCEPT ![r] = @ \o msgs]
          /\ origin' = [origin EXCEPT ![r] = @ \o Zeros(Len(msgs))]
    /\ idx' = [idx EXCEPT ![r] = @ + 1]
    /\ UNCHANGED <<pc, userInput, fileId, given, caller, loopAgent, loopCounter, response,
                   budget, calls, log, started, toolResults, error,
                   reply, menu>>

\* output.type === 'message'
HandleMessage(r) ==
    /\ AtItem(r)
    /\ Current(r).type = "message"
    /\ LET msgs == AssistantMessages(Current(r).content)
       IN /\ input' = [input EXCEPT ![r] = @ \o msgs]
          /\ origin' = [origin EXCEPT ![r] = @ \o Zeros(Len(msgs))]
          /\ loopAgent' = [loopAgent EXCEPT ![r] = IF Len(msgs) > 0 THEN FALSE ELSE @]
    /\ idx' = [idx EXCEPT ![r] = @ + 1]
    /\ UNCHANGED <<pc, userInput, fileId, given, caller, loopCounter, response, budget,
                   calls, log, started, toolResults, error,
                   reply, menu>>

\* a reasoning branch that pushes the item as an assistant entry
HandleReasoningPushes(r) ==
    /\ AtItem(r)
    /\ Current(r).type = "reasoning"
    /\ input' = [input EXCEPT ![r] =
                    Append(@, Message("assistant", StringContent(<<Current(r).type>>)))]
    /\ origin' = [origin EXCEPT ![r] = Append(@, 0)]
    /\ idx' = [idx EXCEPT ![r] = @ + 1]
    /\ UNCHANGED <<pc, userInput, fileId, given, caller, loopAgent, loopCounter, response,
                   budget, calls, log, started, toolResults, error, reply, menu>>

\* output.type === 'reasoning'
HandleReasoning(r) ==
    /\ AtItem(r)
    /\ Current(r).type = "reasoning"
    /\ idx' = [idx EXCEPT ![r] = @ + 1]
    /\ UNCHANGED <<pc, userInput, fileId, given, caller, input, origin, loopAgent,
                   loopCounter, response, budget, calls, log, started, toolResults, error,
                   reply, menu>>

\* a function_call branch that catches what parsing throws and reports it as
\* the tool's result
FunctionCallSwallows(r) ==
    /\ AtItem(r)
    /\ Current(r).type = "function_call"
    /\ LET args == JSONParse(Current(r).arguments)
       IN ~args.ok \/ ArgsAccessThrows(Current(r).name, args)
    /\ input' = [input EXCEPT ![r] =
                    Append(@, FunctionCallOutput(Current(r).call_id, <<"ERROR: bad arguments">>))]
    /\ origin' = [origin EXCEPT ![r] = Append(@, 0)]
    /\ idx' = [idx EXCEPT ![r] = @ + 1]
    /\ UNCHANGED <<pc, userInput, fileId, given, caller, loopAgent, loopCounter, response,
                   budget, calls, log, started, toolResults, error,
                   reply, menu>>

\* output.type === 'function_call', and JSON.parse(output.arguments) or the
\* first read of a property of args throws
FunctionCallThrows(r) ==
    /\ AtItem(r)
    /\ Current(r).type = "function_call"
    /\ LET args == JSONParse(Current(r).arguments)
       IN /\ ~args.ok \/ ArgsAccessThrows(Current(r).name, args)
          /\ error' = [error EXCEPT ![r] = IF args.ok THEN "TypeError" ELSE "SyntaxError"]
    /\ pc' = [pc EXCEPT ![r] = "thrown"]
    /\ UNCHANGED <<userInput, fileId, given, caller, input, origin, loopAgent, loopCounter,
                   response, idx, budget, calls, log, started, toolResults,
                   reply, menu>>

\* the registered tools of the rest of the response are all called at once
StartToolFanOut(r) ==
    /\ AtItem(r)
    /\ Current(r).type = "function_call"
    /\ Current(r).name \in RegisteredTools
    /\ LET args == JSONParse(Current(r).arguments)
       IN args.ok /\ ~ArgsAccessThrows(Current(r).name, args)
    /\ LET rest == FilterIdx([j \in 1..Len(response[r]) |->
                                 j >= idx[r] /\ response[r][j].type = "function_call"
                                             /\ response[r][j].name \in RegisteredTools])
       IN started' = [started EXCEPT ![r] =
                         @ \o [i \in 1..Len(rest) |-> response[r][rest[i]].call_id]]
    /\ pc' = [pc EXCEPT ![r] = "tool"]
    /\ UNCHANGED <<userInput, fileId, given, caller, input, origin, loopAgent, loopCounter,
                   response, idx, budget, calls, log, toolResults, error, reply, menu>>

\* output.type === 'function_call' of a registered tool: the tool is called
\* and awaited
StartTool(r) ==
    /\ AtItem(r)
    /\ Current(r).type = "function_call"
    /\ Current(r).name \in RegisteredTools
    /\ LET args == JSONParse(Current(r).arguments)
       IN args.ok /\ ~ArgsAccessThrows(Current(r).name, args)
    /\ started' = [started EXCEPT ![r] = Append(@, Current(r).call_id)]
    /\ pc' = [pc EXCEPT ![r] = "tool"]
    /\ UNCHANGED <<userInput, fileId, given, caller, input, origin, loopAgent, loopCounter,
                   response, idx, budget, calls, log, toolResults, error,
                   reply, menu>>

\* a tool call whose result is not pushed
FinishToolDropsResult(r) ==
    /\ pc[r] = "tool"
    /\ \E outcome \in ToolOutcomes(Current(r).name) :
          LET toolResult == ToolResult(Current(r).name, JSONParse(Current(r).arguments),
                                       outcome)
          IN toolResults' = [toolResults EXCEPT ![r] = Append(@, toolResult)]
    /\ idx' = [idx EXCEPT ![r] = @ + 1]
    /\ pc' = [pc EXCEPT ![r] = "classify"]
    /\ UNCHANGED <<userInput, fileId, given, caller, input, origin, loopAgent, loopCounter,
                   response, budget, calls, log, started, error, reply, menu>>

\* a tool call whose failure is thrown on instead of being reported
FinishToolThrows(r) ==
    /\ pc[r] = "tool"
    /\ \E outcome \in ToolOutcomes(Current(r).name) :
          LET toolResult == ToolResult(Current(r).name, JSONParse(Current(r).arguments),
                                       outcome)
          IN IF outcome = "ok"
             THEN /\ input' = [input EXCEPT ![r] =
                                  Append(@, FunctionCallOutput(Current(r).call_id, toolResult))]
                  /\ toolResults' = [toolResults EXCEPT ![r] = Append(@, toolResult)]
                  /\ origin' = [origin EXCEPT ![r] = Append(@, 0)]
                  /\ idx' = [idx EXCEPT ![r] = @ + 1]
                  /\ pc' = [pc EXCEPT ![r] = "classify"]
                  /\ UNCHANGED error
             ELSE /\ pc' = [pc EXCEPT ![r] = "thrown"]
                  /\ error' = [error EXCEPT ![r] = "ProviderError"]
                  /\ UNCHANGED <<input, origin, idx, toolResults>>
    /\ UNCHANGED <<userInput, fileId, given, caller, loopAgent, loopCounter, response,
                   budget, calls, log, started,
                   reply, menu>>

\* the tool resolves to a string; the function_call_output is pushed
FinishTool(r) ==
    /\ pc[r] = "tool"
    /\ \E outcome \in ToolOutcomes(Current(r).name) :
          LET toolResult == ToolResult(Current(r).name, JSONParse(Current(r).arguments),
                                       outcome)
          IN /\ input' = [input EXCEPT ![r] =
                             Append(@, FunctionCallOutput(Current(r).call_id, toolResult))]
             /\ toolResults' = [toolResults EXCEPT ![r] = Append(@, toolResult)]
    /\ origin' = [origin EXCEPT ![r] = Append(@, 0)]
    /\ idx' = [idx EXCEPT ![r] = @ + 1]
    /\ pc' = [pc EXCEPT ![r] = "classify"]
    /\ UNCHANGED <<userInput, fileId, given, caller, loopAgent, loopCounter, response,
                   budget, calls, log, started, error,
                   reply, menu>>

\* a default arm that pushes nothing
DefaultToolSilent(r) ==
    /\ AtItem(r)
    /\ Current(r).type = "function_call"
    /\ Current(r).name \notin RegisteredTools
    /\ JSONParse(Current(r).arguments).ok
    /\ idx' = [idx EXCEPT ![r] = @ + 1]
    /\ UNCHANGED <<pc, userInput, fileId, given, caller, input, origin, loopAgent,
                   loopCounter, response, budget, calls, log, started, toolResults, error,
                   reply, menu>>

\* output.type === 'function_call', default arm of the switch
DefaultTool(r) ==
    /\ AtItem(r)
    /\ Current(r).type = "function_call"
    /\ Current(r).name \notin RegisteredTools
    /\ JSONParse(Current(r).arguments).ok
    /\ input' = [input EXCEPT ![r] =
                    Append(@, FunctionCallOutput(Current(r).call_id,
                                                 NotImplemented(Current(r).name)))]
    /\ origin' = [origin EXCEPT ![r] = Append(@, 0)]
    /\ idx' = [idx EXCEPT ![r] = @ + 1]
    /\ UNCHANGED <<pc, userInput, fileId, given, caller, loopAgent, loopCounter, response,
                   budget, calls, log, started, toolResults, error,
                   reply, menu>>

\* an else branch that leaves the for loop (break)
HandleUnknownBreaks(r) ==
    /\ AtItem(r)
    /\ IsUnhandledType(Current(r))
    /\ loopAgent' = [loopAgent EXCEPT ![r] = FALSE]
    /\ idx' = [idx EXCEPT ![r] = Len(response[r]) + 1]
    /\ UNCHANGED <<userInput, fileId, given, caller, input, origin, loopCounter,
                   response, budget, calls, log, started, toolResults, error, pc, reply, menu>>

\* an else branch that keeps the item as an assistant entry
HandleUnknownPushes(r) ==
    /\ AtItem(r)
    /\ IsUnhandledType(Current(r))
    /\ input' = [input EXCEPT ![r] =
                    Append(@, Message("assistant", StringContent(<<Current(r).type>>)))]
    /\ origin' = [origin EXCEPT ![r] = Append(@, 0)]
    /\ loopAgent' = [loopAgent EXCEPT ![r] = FALSE]
    /\ idx' = [idx EXCEPT ![r] = @ + 1]
    /\ UNCHANGED <<pc, userInput, fileId, given, caller, loopCounter, response, budget,
                   calls, log, started, toolResults, error,
                   reply, menu>>

\* any other output.type
HandleUnknown(r) ==
    /\ AtItem(r)
    /\ IsUnhandledType(Current(r))
    /\ loopAgent' = [loopAgent EXCEPT ![r] = FALSE]
    /\ idx' = [idx EXCEPT ![r] = @ + 1]
    /\ UNCHANGED <<pc, userInput, fileId, given, caller, input, origin, loopCounter,
                   response, budget, calls, log, started, toolResults, error,
                   reply, menu>>

Next ==
    \E r \in Runs :
        \/ Iterate(r)
        \/ Return(r)
        \/ Complete(r)
        \/ CompleteFails(r)
        \/ HandleMessage(r)
        \/ HandleReasoning(r)
        \/ FunctionCallThrows(r)
        \/ StartTool(r)
        \/ FinishTool(r)
        \/ DefaultTool(r)
        \/ HandleUnknown(r)

Spec == Init /\ [][Next]_vars

SpecReconcile == InitReconcile /\ [][Next]_vars

SpecPair == InitPair /\ [][Next]_vars

SpecLoop == InitLoop /\ [][Next]_vars

SpecRoute == InitRoute /\ [][Next]_vars

\* every await of a run is answered (the service resolves or rejects, a tool
\* resolves) and the continuation of a run is scheduled: a step that can be
\* taken is taken
SpecTermination == InitTermination /\ [][Next]_vars /\ WF_vars(Next)

----------------------------------------------------------------------------
(* Vocabulary of the properties *)

SystemCount(h) == Cardinality({i \in 1..Len(h) : IsSystem(h[i])})
UserCount(h) == Cardinality({i \in 1..Len(h) : IsUser(h[i])})
AssistantCount(h) == Cardinality({i \in 1..Len(h) : IsAssistant(h[i])})

\* the history is in the service's hands, or in the caller's again
Passed(r) == pc[r] = "await"
Returned(r) == pc[r] = "returned"

\* the call ids of the entries of h of type ty, in order
CallIds(h, ty) ==
    LET at == FilterIdx([i \in 1..Len(h) |-> h[i].type = ty])
    IN [i \in 1..Len(at) |-> h[at[i]].call_id]

\* item j of the k-th response has been handled completely
Handled(r, k, j) == k < Len(log[r]) \/ (k = Len(log[r]) /\ j < idx[r])
\* the k-th response has been handled completely
HandledAll(r, k) == Handled(r, k, Len(log[r][k]))

ResponseItems(r) == {<<k, j>> \in (1..Len(log[r])) \X (1..MaxOutputs + 1) : j <= Len(log[r][k])}

\* the history once reconciliation has been applied to the caller's value once
ReconciledOnce(r) ==
    Reconcile(given[r], [i \in 1..Len(given[r]) |-> i], given[r], userInput[r], fileId[r],
              finalPromptAt(1)).input

----------------------------------------------------------------------------
(* C1: every history handed to the completion service and every history run
   returns holds exactly one system-role message, and it is the first entry,
   whatever system-role entries the caller's history held and wherever. *)
C1_SystemMessageUnique ==
    \A r \in Runs :
        Passed(r) \/ Returned(r) =>
            /\ SystemCount(input[r]) = 1
            /\ IsSystem(input[r][1])

\* a history with two system entries, neither of them first, has been handed on
C1_Witness ==
    /\ Passed(1)
    /\ SystemCount(given[1]) >= 2
    /\ ~IsSystem(given[1][1])

(* C2: a run never makes more than MAX_AGENT_LOOP completion-service calls. *)
C2_BoundedCalls == \A r \in Runs : calls[r] <= MAX_AGENT_LOOP

\* the third call follows a response that asked for two tools
C2_Witness ==
    /\ calls[1] = MAX_AGENT_LOOP
    /\ \E k \in 1..Len(log[1]) : NumFunctionCalls(log[1][k]) >= 2

(* C3: once reconciliation has run, running it again with the same userText
   and fileId leaves the number of user-role messages where the first pass put
   it: at every point of a run after its first iteration began, the history
   holds as many user messages as one pass over the caller's history gives. *)
C3_UserTurnIdempotent ==
    \A r \in Runs :
        loopCounter[r] >= 1 => UserCount(input[r]) = UserCount(ReconciledOnce(r))

\* a second pass has run over a history in which the first pass pushed the
\* user turn
C3_Witness ==
    /\ Passed(1)
    /\ loopCounter[1] >= 2
    /\ UserCount(given[1]) = 0
    /\ Len(given[1]) > 0

----------------------------------------------------------------------------
(* More vocabulary *)

ItemAt(r, kj) == log[r][kj[1]][kj[2]]

IsUnregisteredCall(o) == o.type = "function_call" /\ o.name \notin RegisteredTools
IsRegisteredCall(o) == o.type = "function_call" /\ o.name \in RegisteredTools
MalformedCall(o) == o.type = "function_call" /\ ~JSONParse(o.arguments).ok

\* run threw while it handled item kj
ThrownAt(r, kj) ==
    /\ pc[r] = "thrown"
    /\ error[r] \in {"SyntaxError", "TypeError"}
    /\ kj[1] = Len(log[r])
    /\ kj[2] = idx[r]

\* where in h the function_call_output entries for call id sit
OutputsFor(h, id) ==
    {i \in 1..Len(h) : h[i].type = "function_call_output" /\ h[i].call_id = id}

\* the call ids of the function calls of a response, as emitted
RespCallIds(resp) ==
    LET fcs == FilterIdx(FunctionCallAt(resp))
    IN [i \in 1..Len(fcs) |-> resp[fcs[i]].call_id]

Range(seq) == {seq[i] : i \in 1..Len(seq)}

\* seq without the elements outside S
Restrict(seq, S) ==
    LET at == FilterIdx([i \in 1..Len(seq) |-> seq[i] \in S])
    IN [i \in 1..Len(at) |-> seq[at[i]]]

\* the call ids of all responses received, as emitted
RECURSIVE AllCallIds(_)
AllCallIds(lg) ==
    IF lg = <<>> THEN <<>>
    ELSE AllCallIds(SubSeq(lg, 1, Len(lg) - 1)) \o RespCallIds(Last(lg))

\* the run has pushed message m
Pushed(r, m) == \E i \in 1..Len(input[r]) : origin[r][i] = 0 /\ input[r][i] = m

\* the step is a step of run r
Moved(r) ==
    <<pc[r], idx[r], input[r], loopAgent[r], loopCounter[r], calls[r], started[r], error[r]>>'
        # <<pc[r], idx[r], input[r], loopAgent[r], loopCounter[r], calls[r], started[r], error[r]>>

----------------------------------------------------------------------------
\* the text the soft failure is to read
SoftFailText(name) == <<"ERROR: tool ", name, " not implemented.">>

(* C4, as claimed: for every function_call item naming an unregistered tool,
   whatever its arguments payload, handling it does not throw and leaves a
   function_call_output reading "ERROR: tool <name> not implemented.". *)
C4_SoftFailAnyPayload ==
    \A r \in Runs : \A kj \in ResponseItems(r) :
        IsUnregisteredCall(ItemAt(r, kj)) =>
            /\ ~ThrownAt(r, kj)
            /\ Handled(r, kj[1], kj[2]) =>
                  \E i \in OutputsFor(input[r], ItemAt(r, kj).call_id) :
                      input[r][i].output = SoftFailText(ItemAt(r, kj).name)

(* C4, amended: for every function_call item naming an unregistered tool whose
   arguments payload is valid JSON (an object or not), handling it does not
   throw and leaves exactly one function_call_output for its call id, reading
   "ERROR: tool <name> not implemented.". *)
C4_SoftFailValidJson ==
    \A r \in Runs : \A kj \in ResponseItems(r) :
        IsUnregisteredCall(ItemAt(r, kj)) /\ JSONParse(ItemAt(r, kj).arguments).ok =>
            /\ ~ThrownAt(r, kj)
            /\ Handled(r, kj[1], kj[2]) =>
                  /\ Cardinality(OutputsFor(input[r], ItemAt(r, kj).call_id)) = 1
                  /\ \A i \in OutputsFor(input[r], ItemAt(r, kj).call_id) :
                        input[r][i].output = SoftFailText(ItemAt(r, kj).name)

\* an unregistered tool called with the JSON value null has been handled
C4_Witness ==
    \E kj \in ResponseItems(1) :
        /\ IsUnregisteredCall(ItemAt(1, kj))
        /\ ItemAt(1, kj).arguments = NullArgs
        /\ Handled(1, kj[1], kj[2])
        /\ Returned(1)

(* C5: once a response is handled, the function_call entries the history holds
   for it are in the order the service emitted the calls, and so are its
   function_call_output entries. *)
C5_OrderPreserved ==
    \A r \in Runs : \A k \in 1..Len(log[r]) :
        HandledAll(r, k) =>
            LET ids == RespCallIds(log[r][k])
            IN /\ Restrict(CallIds(input[r], "function_call"), Range(ids)) = ids
               /\ Restrict(CallIds(input[r], "function_call_output"), Range(ids)) = ids

\* a response with three function calls, not all of the same tool, is handled
C5_Witness ==
    \E k \in 1..Len(log[1]) :
        /\ HandledAll(1, k)
        /\ NumFunctionCalls(log[1][k]) = 3
        /\ log[1][k][1].name # log[1][k][3].name

(* C6: when every response holds only function calls whose arguments are a
   JSON object (and no completion call fails), run does not throw, pushes no
   assistant message, and returns only after MAX_AGENT_LOOP completion calls,
   with the invocations and the results of all of them in the history. *)
OnlyValidCalls(resp) ==
    \A j \in 1..Len(resp) :
        IsFunctionCallItem(resp[j]) /\ JSONParse(resp[j].arguments).kind = "object"

C6_CapExhaustion ==
    \A r \in Runs :
        (error[r] # "ServiceError" /\ \A k \in 1..Len(log[r]) : OnlyValidCalls(log[r][k])) =>
            /\ pc[r] # "thrown"
            /\ AssistantCount(input[r]) = AssistantCount(given[r])
            /\ Returned(r) =>
                  /\ calls[r] = MAX_AGENT_LOOP
                  /\ Len(log[r]) = MAX_AGENT_LOOP
                  /\ CallIds(input[r], "function_call") = AllCallIds(log[r])
                  /\ CallIds(input[r], "function_call_output") = AllCallIds(log[r])

\* three responses, a function call in each, and run has returned
C6_Witness ==
    /\ Returned(1)
    /\ Len(log[1]) = MAX_AGENT_LOOP
    /\ \A k \in 1..Len(log[1]) : OnlyValidCalls(log[1][k]) /\ Len(log[1][k]) = 1

(* C7, as claimed: when a response holds a message item with an output_text
   part, the run ends with an assistant message carrying each such text pushed,
   and makes no completion call after that response.  The end of a run is its
   return or the SyntaxError of malformed arguments; a run that a TypeError
   ended is left aside, so that what refutes the claim is a failure the
   design asks for. *)
C7_TextEndsLoopAlways ==
    \A r \in Runs : \A kj \in ResponseItems(r) :
        HasOutputText(ItemAt(r, kj)) =>
            /\ calls[r] = kj[1]
            /\ (Returned(r) \/ (pc[r] = "thrown" /\ error[r] = "SyntaxError")) =>
                  \A m \in Range(AssistantMessages(ItemAt(r, kj).content)) : Pushed(r, m)

(* C7, amended: when a response holds a message item with an output_text part,
   no completion call is made after that response; once the item is handled an
   assistant message carrying each such text is pushed, and it is handled in
   every run that returns (run may throw on an earlier function call of the
   same response, and then the message is never pushed). *)
C7_TextEndsLoop ==
    \A r \in Runs : \A kj \in ResponseItems(r) :
        HasOutputText(ItemAt(r, kj)) =>
            /\ calls[r] = kj[1]
            /\ Handled(r, kj[1], kj[2]) =>
                  \A m \in Range(AssistantMessages(ItemAt(r, kj).content)) : Pushed(r, m)
            /\ Returned(r) => Handled(r, kj[1], kj[2])

\* the second response answered in text, after a round of tool calls
C7_Witness ==
    /\ Returned(1)
    /\ calls[1] = 2
    /\ NumFunctionCalls(log[1][1]) > 0
    /\ \E j \in 1..Len(log[1][2]) : HasOutputText(log[1][2][j])

(* C8: an item whose type is none of message, reasoning, function_call adds
   no entry to the history and does not make run throw, and no completion call
   is made after the response that holds it. *)
C8_UnknownItemEndsLoop ==
    /\ [](\A r \in Runs : \A kj \in ResponseItems(r) :
            IsUnhandledType(ItemAt(r, kj)) => calls[r] = kj[1] /\ ~ThrownAt(r, kj))
    /\ [][\A r \in Runs :
            AtItem(r) /\ IsUnhandledType(Current(r)) /\ Moved(r) =>
                input'[r] = input[r] /\ pc'[r] = pc[r] /\ error'[r] = error[r]]_vars

\* an unrecognised item came first in the first response, a tool call after it,
\* and run has returned
C8_Witness ==
    /\ Returned(1)
    /\ Len(log[1]) = 1
    /\ Len(log[1][1]) >= 2
    /\ IsUnhandledType(log[1][1][1])
    /\ IsFunctionCallItem(log[1][1][2])

(* C9: a function_call item whose arguments are not valid JSON is never got
   past: its tool is not started, no function_call_output is pushed for it, no
   item after it is handled, no completion call follows its response, and run
   does not return; when the loop reaches it, run throws. *)
C9_MalformedArgumentsThrow ==
    \A r \in Runs : \A kj \in ResponseItems(r) :
        MalformedCall(ItemAt(r, kj)) =>
            /\ ~Handled(r, kj[1], kj[2])
            /\ \A j \in kj[2]..Len(log[r][kj[1]]) : ~Handled(r, kj[1], j)
            /\ OutputsFor(input[r], ItemAt(r, kj).call_id) = {}
            /\ ItemAt(r, kj).call_id \notin Range(started[r])
            /\ calls[r] = kj[1]
            /\ ~Returned(r)
            /\ (AtItem(r) /\ idx[r] = kj[2]) => ENABLED FunctionCallThrows(r)
            /\ ThrownAt(r, kj) => error[r] = "SyntaxError"

\* run threw on the malformed arguments of a registered tool, with an item
\* still behind it in the response
C9_Witness ==
    /\ pc[1] = "thrown"
    /\ error[1] = "SyntaxError"
    /\ IsRegisteredCall(Current(1))
    /\ idx[1] < Len(response[1])

(* C10: in every history handed to the completion service and in every history
   run returns, each function_call entry has exactly one function_call_output
   entry with its call id, and that entry comes after it. *)
C10_CallsPaired ==
    \A r \in Runs :
        Passed(r) \/ Returned(r) =>
            \A i \in 1..Len(input[r]) :
                input[r][i].type = "function_call" =>
                    /\ Cardinality(OutputsFor(input[r], input[r][i].call_id)) = 1
                    /\ \A o \in OutputsFor(input[r], input[r][i].call_id) : o > i

\* a history with the result of a tool that succeeded, of one that reported a
\* failure and of one that is not registered is handed to the service
C10_Witness ==
    /\ Passed(1)
    /\ \E i, j, k \in 1..Len(input[1]) :
          /\ input[1][i].output = ToolResult("cancel_meeting", JSONParse(ValidArgs), "ok")
          /\ input[1][j].output = ToolResult("cancel_meeting", JSONParse(ValidArgs), "error")
          /\ input[1][k].output = SoftFailText("send_email")


----------------------------------------------------------------------------
(* The user turn *)

\* the last user-role entry of h
LastUser(h) == h[FindLastIndex(UserAt(h))]

\* the ids of the file parts of a content
FileIdsOf(c) ==
    IF c.kind # "array" THEN {}
    ELSE {c.parts[i].file_id : i \in {j \in 1..Len(c.parts) : c.parts[j].type = "input_file"}}

\* the texts a content shows
VisibleTexts(c) ==
    IF c.kind = "string" THEN {c.text}
    ELSE {c.parts[i].text : i \in {j \in 1..Len(c.parts) : c.parts[j].type = "input_text"}}

(* C11: run leaves the caller's history as it was given: at every point of a
   run, and so when it has returned or thrown, the caller's array has the
   length it had and each message in it the role and the content it had. *)
C11_CallerHistoryUntouched ==
    \A r \in Runs :
        /\ Len(caller[r]) = Len(given[r])
        /\ \A i \in 1..Len(given[r]) :
              /\ caller[r][i].role = given[r][i].role
              /\ caller[r][i].content = given[r][i].content

(* C12: whatever the history (empty, with a user message, without one) and
   with or without an explicit file id, when userInput holds an inline marker
   the user turn of every history handed to the service or returned has a file
   part, and no text it shows holds a marker. *)
C12_MarkerStripped ==
    \A r \in Runs :
        (Passed(r) \/ Returned(r)) /\ ContainsMarker(userInput[r]) =>
            LET c == LastUser(input[r]).content
            IN /\ FileIdsOf(c) # {}
               /\ \A t \in VisibleTexts(c) : ~ContainsMarker(t)

(* C13: when run is given an explicit file id and a userInput whose marker
   names another id, the user turn of every history handed to the service or
   returned has a file part, and every file part of it carries the explicit
   id. *)
C13_ExplicitReferencePrecedence ==
    \A r \in Runs :
        /\ Passed(r) \/ Returned(r)
        /\ fileId[r] # <<>>
        /\ extractFileIdFromContent(userInput[r]) \notin {<<>>, fileId[r]}
        => FileIdsOf(LastUser(input[r]).content) = {fileId[r]}

\* both ids were given, over a history whose user message already had a file
C13_Witness ==
    /\ Passed(1)
    /\ fileId[1] = <<"f1">>
    /\ extractFileIdFromContent(userInput[1]) = <<"f2">>
    /\ \E i \in 1..Len(given[1]) : given[1][i] = OldUserFile

\* the histories the first part of C14 speaks of
EmptyOrWithUser(h) == h = <<>> \/ UserCount(h) > 0

(* C14, as claimed: with an explicit file id, on an empty history or one that
   holds a user message, the last user entry handed to the service has the
   content [file part(fileId), text part(userInput)]; on an empty history
   with no file id and no marker the first history handed over is
   [system, user] with the user content the string userInput. *)
C14_UserTurnShapeVerbatim ==
    \A r \in Runs :
        Passed(r) =>
            /\ (fileId[r] # <<>> /\ EmptyOrWithUser(given[r])) =>
                  LastUser(input[r]).content =
                      ArrayContent(<<FilePart(fileId[r]), TextPart(userInput[r])>>)
            /\ (given[r] = <<>> /\ fileId[r] = <<>> /\ ~ContainsMarker(userInput[r])
                    /\ loopCounter[r] = 1) =>
                  /\ Len(input[r]) = 2
                  /\ IsSystem(input[r][1])
                  /\ input[r][2] = Message("user", StringContent(userInput[r]))

\* an inline marker begins at token i of t
BeginsMarker(t, i) ==
    /\ t[i] = OPEN
    /\ i + 1 <= Len(t)
    /\ t[i + 1] # CLOSE
    /\ \E j \in (i + 2)..Len(t) : t[j] = CLOSE

\* userInput without its first marker and the white space after it
WithoutFirstMarker(t) ==
    IF \E i \in 1..Len(t) : BeginsMarker(t, i)
    THEN LET i == CHOOSE a \in 1..Len(t) :
                      BeginsMarker(t, a) /\ \A b \in 1..(a - 1) : ~BeginsMarker(t, b)
             j == CHOOSE c \in (i + 2)..Len(t) :
                      t[c] = CLOSE /\ \A d \in (i + 1)..(c - 1) : t[d] # CLOSE
             k == CHOOSE e \in j..Len(t) :
                      /\ \A m \in (j + 1)..e : t[m] = SP
                      /\ e = Len(t) \/ t[e + 1] # SP
         IN SubSeq(t, 1, i - 1) \o SubSeq(t, k + 1, Len(t))
    ELSE t

(* C14, amended: as above, but the text part carries userInput without its
   first inline marker and the white space after it (userInput itself when it
   holds no marker). *)
C14_UserTurnShape ==
    \A r \in Runs :
        Passed(r) =>
            /\ (fileId[r] # <<>> /\ EmptyOrWithUser(given[r])) =>
                  LastUser(input[r]).content =
                      ArrayContent(<<FilePart(fileId[r]),
                                     TextPart(WithoutFirstMarker(userInput[r]))>>)
            /\ (given[r] = <<>> /\ fileId[r] = <<>> /\ ~ContainsMarker(userInput[r])
                    /\ loopCounter[r] = 1) =>
                  /\ Len(input[r]) = 2
                  /\ IsSystem(input[r][1])
                  /\ input[r][2] = Message("user", StringContent(userInput[r]))

\* an explicit file id and a marked text, over a history of two turns
C14_Witness ==
    /\ Passed(1)
    /\ fileId[1] = <<"f1">>
    /\ userInput[1] = MarkedText
    /\ given[1] = <<OldUser, OldAssistant>>

----------------------------------------------------------------------------
(* Failures *)

\* what the calendar provider reports when cancelling fails on a network error
CancelFailureText == <<"(x) Error cancelling meeting: ", "Network error">>

\* the tool of item kj failed and reported it
FailedAt(r, kj) ==
    /\ IsRegisteredCall(ItemAt(r, kj))
    /\ Handled(r, kj[1], kj[2])
    /\ \E i \in OutputsFor(input[r], ItemAt(r, kj).call_id) :
          input[r][i].output = CancelFailureText

\* response k holds neither assistant text nor an unrecognised item
OnlyCallsAndReasoning(resp) ==
    \A j \in 1..Len(resp) : ~HasOutputText(resp[j]) /\ ~IsUnhandledType(resp[j])

(* C15: run never throws at an item whose tool it has started, whether the
   provider succeeded or failed; a provider failure is in the history as the
   one function_call_output of its call, reading the failure text; and the
   failure does not end the loop: after a response with a failed tool call,
   no assistant text and no unrecognised item, run does not return before a
   further completion call unless MAX_AGENT_LOOP calls were made, and at the
   loop header the loop flag is set and the counter below the cap. *)
C15_ProviderFailureSoft ==
    \A r \in Runs : \A kj \in ResponseItems(r) :
        /\ ItemAt(r, kj).call_id \in Range(started[r]) =>
              ~(pc[r] = "thrown" /\ kj[1] = Len(log[r]) /\ kj[2] = idx[r])
        /\ (pc[r] = "tool" /\ kj[1] = Len(log[r]) /\ kj[2] = idx[r]) =>
              ItemAt(r, kj).call_id \in Range(started[r])
        /\ FailedAt(r, kj) =>
              /\ Cardinality(OutputsFor(input[r], ItemAt(r, kj).call_id)) = 1
              /\ (OnlyCallsAndReasoning(log[r][kj[1]]) /\ kj[1] < MAX_AGENT_LOOP) =>
                    /\ Returned(r) => calls[r] > kj[1]
                    /\ (AtLoopHeader(r) /\ calls[r] = kj[1]) =>
                          loopAgent[r] /\ loopCounter[r] < MAX_AGENT_LOOP

\* cancelling evt_1 failed in the first response, and the second completion
\* call has been made
C15_Witness ==
    /\ Passed(1)
    /\ calls[1] = 2
    /\ \E kj \in ResponseItems(1) :
          /\ kj[1] = 1
          /\ FailedAt(1, kj)
          /\ ItemAt(1, kj).name = "cancel_meeting"
          /\ ItemAt(1, kj).arguments = ValidArgs

(* C16: when no completion call fails and every function_call the run has
   received carries arguments that are valid JSON (an object, null, a number),
   run has not thrown. *)
C16_TwoHardFailuresOnly ==
    \A r \in Runs :
        /\ error[r] # "ServiceError"
        /\ \A kj \in ResponseItems(r) :
              IsFunctionCallItem(ItemAt(r, kj)) => ~MalformedCall(ItemAt(r, kj))
        => pc[r] # "thrown"

\* the template with each placeholder replaced by the date and time read in
\* iteration k
ResolvedTemplate(k) ==
    <<"Voce e um assistente. ",
      "Hoje e segunda, horario atual: 10:0", ToString(k), ", aqui em Sao Paulo.",
      " Agende. ",
      "Hoje e segunda, horario atual: 10:0", ToString(k), ", aqui em Sao Paulo.">>

(* C18: at every completion call the first entry of the history is the system
   message whose content is the template with every $dateTime replaced by the
   date and time read in that iteration; no placeholder is left in it. *)
C18_FreshResolvedInstruction ==
    \A r \in Runs :
        Passed(r) =>
            /\ IsSystem(input[r][1])
            /\ input[r][1].content = StringContent(ResolvedTemplate(loopCounter[r]))
            /\ \A i \in 1..Len(input[r][1].content.text) :
                  input[r][1].content.text[i] # DOLLAR

----------------------------------------------------------------------------
(* Several runs *)

\* how a run that has returned left the loop
ExitCondition(r) ==
    LET last == Last(log[r])
        text == \E j \in 1..Len(last) : HasOutputText(last[j])
        unrecognised == \E j \in 1..Len(last) : IsUnhandledType(last[j])
    IN IF loopAgent[r] THEN "cap reached"
       ELSE IF text /\ unrecognised THEN "both"
       ELSE IF text THEN "assistant text"
       ELSE "unrecognised item"

(* C17: two runs given the same input that have returned by different exit
   conditions (assistant text, unrecognised item, cap reached) have returned
   different histories. *)
C17_DistinguishableOutcomes ==
    \A r1 \in Runs : \A r2 \in Runs :
        /\ Returned(r1) /\ Returned(r2)
        /\ given[r1] = given[r2] /\ userInput[r1] = userInput[r2] /\ fileId[r1] = fileId[r2]
        /\ ExitCondition(r1) # "both" /\ ExitCondition(r2) # "both"
        /\ ExitCondition(r1) # ExitCondition(r2)
        => input[r1] # input[r2]

\* the for loop of run alone over the items of resp from item j on: in is the
\* working array, res the strings the tools resolve to, in the order asked for
RECURSIVE ReplayItems(_, _, _, _)
ReplayItems(in, resp, j, res) ==
    IF j > Len(resp) THEN [input |-> in, res |-> res]
    ELSE IF resp[j].type = "message"
         THEN ReplayItems(in \o AssistantMessages(resp[j].content), resp, j + 1, res)
    ELSE IF resp[j].type = "function_call"
         THEN IF resp[j].name \in RegisteredTools
              THEN ReplayItems(Append(in, FunctionCallOutput(resp[j].call_id, Head(res))),
                               resp, j + 1, Tail(res))
              ELSE ReplayItems(Append(in, FunctionCallOutput(resp[j].call_id,
                                                             NotImplemented(resp[j].name))),
                               resp, j + 1, res)
    ELSE ReplayItems(in, resp, j + 1, res)

\* run alone from iteration k on, given the responses lg of the service
RECURSIVE ReplayFrom(_, _, _, _, _, _)
ReplayFrom(in, t, f, lg, k, res) ==
    IF k > Len(lg) THEN in
    ELSE LET rec == Reconcile(in, Zeros(Len(in)), <<>>, t, f, finalPromptAt(k)).input
             after == ReplayItems(rec \o FunctionCallEntries(lg[k]), lg[k], 1, res)
         IN ReplayFrom(after.input, t, f, lg, k + 1, after.res)

\* what run returns when it runs alone on history h
Replay(h, t, f, lg, res) == ReplayFrom(h, t, f, lg, 1, res)

(* C20: a run that has returned, whatever another run on the same engine did
   in between, has returned the history it returns when it runs alone on its
   own history with the same responses and tool results. *)
C20_NoCrossTurnInterference ==
    \A r \in Runs :
        Returned(r) =>
            input[r] = Replay(given[r], userInput[r], fileId[r], log[r], toolResults[r])

\* run 1 has returned with a tool result in its history while run 2, on
\* another history, waits for a tool of its own
C20_Witness ==
    /\ Returned(1)
    /\ toolResults[1] # <<>>
    /\ pc[2] = "tool"
    /\ given[1] # given[2]

----------------------------------------------------------------------------
(* Termination *)

Terminated(r) == pc[r] \in {"returned", "thrown"}

(* C19: every run that was called ends, by returning or by throwing, when
   every completion call and every tool call is answered; no sequence of
   responses keeps it in the loop: eventually every run is either one that
   was never called or one that has ended. *)
C19_Termination == <>(\A r \in Runs : pc[r] = "idle" \/ Terminated(r))

\* a run has returned after the service asked for a tool and then twice gave
\* nothing that ends the loop
C19_Witness ==
    /\ Returned(1)
    /\ loopAgent[1]
    /\ calls[1] = MAX_AGENT_LOOP
    /\ toolResults[1] # <<>>

----------------------------------------------------------------------------
(* The shape of the history *)

\* the entries of h that are not system messages, in order
Body(h) ==
    LET at == FilterIdx([i \in 1..Len(h) |-> h[i].role # "system"])
    IN [i \in 1..Len(at) |-> h[at[i]]]

\* where the last user message of h sits, 0 when there is none
LastUserIndex(h) ==
    IF \A i \in 1..Len(h) : h[i].role # "user" THEN 0
    ELSE CHOOSE i \in 1..Len(h) :
             h[i].role = "user" /\ \A j \in (i + 1)..Len(h) : h[j].role # "user"

(* C21: the first history handed to the service, for a non-empty history of
   the caller: when the caller's history has no user message, its non-system
   entries followed by one new user message; otherwise its non-system entries,
   as many and in the same places, all unchanged but the last user message,
   which is still a user message. *)
C21_AppendOrOverwrite ==
    \A r \in Runs :
        (Passed(r) /\ loopCounter[r] = 1 /\ given[r] # <<>>) =>
            LET old == Body(given[r])
                new == Body(input[r])
                u == LastUserIndex(old)
            IN IF u = 0
               THEN /\ Len(new) = Len(old) + 1
                    /\ SubSeq(new, 1, Len(old)) = old
                    /\ IsUser(Last(new))
               ELSE /\ Len(new) = Len(old)
                    /\ \A i \in 1..Len(old) : i # u => new[i] = old[i]
                    /\ IsUser(new[u])

\* the caller's history held two user messages and ended with an assistant
\* message
C21_Witness ==
    /\ Passed(1)
    /\ loopCounter[1] = 1
    /\ UserCount(given[1]) = 2
    /\ IsUser(given[1][1])
    /\ IsAssistant(Last(given[1]))

(* C22: from the first completion call of a run on, no step of the run
   removes, reorders or changes an entry other than the system message and
   the last user message: the non-system entries before the step are, but for
   the last user message, the first non-system entries after it. *)
C22_AppendOnly ==
    [][\A r \in Runs :
          loopCounter[r] >= 1 =>
              LET old == Body(input[r])
                  new == Body(input'[r])
              IN /\ Len(new) >= Len(old)
                 /\ \A i \in 1..Len(old) : i # LastUserIndex(new) => new[i] = old[i]]_vars

\* a second completion call was made with a tool's invocation and result in
\* the history, the caller's history having held a system message after its
\* first entry
C22_Witness ==
    /\ Passed(1)
    /\ loopCounter[1] = 2
    /\ OutputsFor(input[1], CallIdOf(1, 1)) # {}
    /\ \E i \in 2..Len(given[1]) : IsSystem(given[1][i])

(* C29: the content of the current user turn, its text and its file part, is
   at every completion call of a run what it was at the first one. *)
C29_StableUserTurn ==
    \A r \in Runs :
        Passed(r) =>
            LastUser(input[r]).content = LastUser(ReconciledOnce(r)).content

----------------------------------------------------------------------------
(* The handling of a response *)

\* where in h the function_call entries for call id sit
InvocationsOf(h, id) ==
    {i \in 1..Len(h) : h[i].type = "function_call" /\ h[i].call_id = id}

(* C23: for every tool a run has started, and so at the moment it starts, the
   history holds the function_call entry with the call's id, ahead of any
   function_call_output for it. *)
C23_InvocationBeforeExecution ==
    \A r \in Runs : \A n \in 1..Len(started[r]) :
        /\ InvocationsOf(input[r], started[r][n]) # {}
        /\ \A i \in InvocationsOf(input[r], started[r][n]) :
              \A o \in OutputsFor(input[r], started[r][n]) : i < o

\* the second tool of a response is executing and has no result yet
C23_Witness ==
    /\ pc[1] = "tool"
    /\ Len(log[1]) = 1
    /\ Len(started[1]) = 2
    /\ OutputsFor(input[1], started[1][2]) = {}

\* the started tools whose result is not in the history
InFlight(r) == {n \in 1..Len(started[r]) : OutputsFor(input[r], started[r][n]) = {}}

(* C24: a run has at most one tool in flight, and then it is the one started
   last, the run is waiting for it and for nothing else (no completion call is
   awaited); the tools are started in the order the service emitted the calls,
   each one once. *)
C24_SequentialTools ==
    \A r \in Runs :
        /\ Cardinality(InFlight(r)) <= 1
        /\ InFlight(r) # {} =>
              /\ InFlight(r) = {Len(started[r])}
              /\ pc[r] = "tool"
              /\ Current(r).call_id = Last(started[r])
        /\ pc[r] = "tool" => InFlight(r) # {}
        /\ started[r] = Restrict(AllCallIds(log[r]), Range(started[r]))

\* the third tool of a response is in flight, the results of the first two
\* are in the history
C24_Witness ==
    /\ pc[1] = "tool"
    /\ Len(log[1]) = 1
    /\ Len(started[1]) = 3
    /\ InFlight(1) = {3}

\* the entries the run has pushed after reconciling: what the history holds
\* beyond the system message and the caller's turns
PushedEntries(r) == SubSeq(input[r], Len(ReconciledOnce(r)) + 1, Len(input[r]))

\* entry e stems from a message or function_call item the run has received
StemsFromItem(r, e) ==
    \E kj \in ResponseItems(r) :
        LET o == ItemAt(r, kj)
        IN \/ /\ o.type = "function_call"
              /\ e.type \in {"function_call", "function_call_output"}
              /\ e.call_id = o.call_id
           \/ /\ o.type = "message"
              /\ e.role = "assistant"
              /\ \E p \in 1..Len(o.content) :
                    o.content[p].type = "output_text"
                        /\ e.content = StringContent(o.content[p].text)

OnlyReasoning(resp) == \A j \in 1..Len(resp) : resp[j].type = "reasoning"

(* C25: reasoning items leave no trace: every entry a run has pushed stems
   from a function_call or a message item, and as long as the service has
   sent reasoning items only, the run has pushed nothing and the loop flag is
   set. *)
C25_ReasoningInert ==
    \A r \in Runs :
        loopCounter[r] >= 1 =>
            /\ \A i \in 1..Len(PushedEntries(r)) : StemsFromItem(r, PushedEntries(r)[i])
            /\ (\A k \in 1..Len(log[r]) : OnlyReasoning(log[r][k])) =>
                  /\ PushedEntries(r) = <<>>
                  /\ loopAgent[r]

\* three responses of reasoning items only, and run has returned
C25_Witness ==
    /\ Returned(1)
    /\ Len(log[1]) = MAX_AGENT_LOOP
    /\ \A k \in 1..Len(log[1]) : log[1][k] # <<>> /\ OnlyReasoning(log[1][k])

\* resp holds an output_text part or an unrecognised item
EndsLoop(resp) ==
    \E j \in 1..Len(resp) :
        \/ resp[j].type \notin {"message", "reasoning", "function_call"}
        \/ /\ resp[j].type = "message"
           /\ \E p \in 1..Len(resp[j].content) : resp[j].content[p].type = "output_text"

(* C26: once a response is processed, the loop goes on exactly when fewer
   than MAX_AGENT_LOOP calls were made and the response held neither an
   output_text part nor an unrecognised item: a completion call has been made
   only after responses of that kind, and run has returned only after a
   response not of that kind or after MAX_AGENT_LOOP calls. *)
C26_LoopContinuation ==
    \A r \in Runs :
        /\ (pc[r] = "classify" /\ idx[r] > Len(response[r])) =>
              ((loopAgent[r] /\ loopCounter[r] < MAX_AGENT_LOOP)
                  <=> (calls[r] < MAX_AGENT_LOOP /\ ~EndsLoop(Last(log[r]))))
        /\ \A k \in 1..(calls[r] - 1) : ~EndsLoop(log[r][k])
        /\ Returned(r) => (calls[r] = MAX_AGENT_LOOP \/ EndsLoop(Last(log[r])))

\* a third call was made after an empty response and a message item without
\* text
C26_Witness ==
    /\ Passed(1)
    /\ calls[1] = MAX_AGENT_LOOP
    /\ log[1][1] = <<>>
    /\ Len(log[1][2]) = 1
    /\ log[1][2][1].type = "message"

\* item j of response k comes after an unrecognised item of that response
AfterUnrecognised(r, k, j) ==
    \E j0 \in 1..(j - 1) : log[r][k][j0].type \notin {"message", "reasoning", "function_call"}

\* the text parts of item o are in the history as assistant messages
TextsPushed(r, o) ==
    \A p \in 1..Len(o.content) :
        o.content[p].type = "output_text" =>
            Pushed(r, Message("assistant", StringContent(o.content[p].text)))

(* C27, as claimed: once a run has ended (returned, or thrown on arguments
   that are not valid JSON) with an unrecognised item of a response behind
   it, every function call that came after that item has its result in the
   history and every output_text part after it is in the history as an
   assistant message. *)
C27_UnrecognisedNeverStops ==
    \A r \in Runs : \A kj \in ResponseItems(r) :
        /\ AfterUnrecognised(r, kj[1], kj[2])
        /\ \A j0 \in 1..(kj[2] - 1) : Handled(r, kj[1], j0)
        /\ Returned(r) \/ (pc[r] = "thrown" /\ error[r] = "SyntaxError")
        => /\ ItemAt(r, kj).type = "function_call" =>
                 Cardinality(OutputsFor(input[r], ItemAt(r, kj).call_id)) = 1
           /\ ItemAt(r, kj).type = "message" => TextsPushed(r, ItemAt(r, kj))

(* C27, amended: an unrecognised item clears the loop flag and the for loop
   goes on: run returns only when every item of the response is handled, and
   an item handled after an unrecognised one is handled as ever (a function
   call has its one result in the history, and was executed if its tool is
   registered; the texts of a message are in the history). *)
C27_UnrecognisedDoesNotStop ==
    \A r \in Runs : \A kj \in ResponseItems(r) :
        AfterUnrecognised(r, kj[1], kj[2]) =>
            /\ Returned(r) => Handled(r, kj[1], kj[2])
            /\ Handled(r, kj[1], kj[2]) =>
                  /\ ~loopAgent[r]
                  /\ ItemAt(r, kj).type = "function_call" =>
                        /\ Cardinality(OutputsFor(input[r], ItemAt(r, kj).call_id)) = 1
                        /\ IsRegisteredCall(ItemAt(r, kj)) =>
                              ItemAt(r, kj).call_id \in Range(started[r])
                  /\ ItemAt(r, kj).type = "message" => TextsPushed(r, ItemAt(r, kj))

\* a response of an unrecognised item, a call of a registered tool and a text,
\* and run has returned
C27_Witness ==
    /\ Returned(1)
    /\ Len(log[1]) = 1
    /\ Len(log[1][1]) = 3
    /\ IsUnhandledType(log[1][1][1])
    /\ IsRegisteredCall(log[1][1][2])
    /\ HasOutputText(log[1][1][3])

\* response k holds assistant text and a function call
TextAndCalls(resp) ==
    /\ \E j \in 1..Len(resp) : HasOutputText(resp[j])
    /\ \E j \in 1..Len(resp) : resp[j].type = "function_call"

\* in resp a text item comes before a function call
TextBeforeCall(resp) ==
    \E j1 \in 1..Len(resp) : \E j2 \in (j1 + 1)..Len(resp) :
        HasOutputText(resp[j1]) /\ resp[j2].type = "function_call"

(* C28, as claimed: after a response with assistant text and function calls
   no further completion call is made, a run that has returned holds the
   result of every function call of it, and when a text item came before a
   function call the returned history ends with a function_call_output. *)
C28_TextAndCallsVerbatim ==
    \A r \in Runs : \A k \in 1..Len(log[r]) :
        TextAndCalls(log[r][k]) =>
            /\ calls[r] = k
            /\ Returned(r) =>
                  /\ \A j \in 1..Len(log[r][k]) :
                        log[r][k][j].type = "function_call" =>
                            Cardinality(OutputsFor(input[r], log[r][k][j].call_id)) = 1
                  /\ TextBeforeCall(log[r][k]) =>
                        Last(input[r]).type = "function_call_output"

\* no text item of resp comes after its last function call
NoTextAfterLastCall(resp) ==
    \A j1 \in 1..Len(resp) :
        HasOutputText(resp[j1]) =>
            \E j2 \in (j1 + 1)..Len(resp) : resp[j2].type = "function_call"

(* C28, amended: after a response with assistant text and function calls no
   further completion call is made; a function call of it that is handled has
   its one result in the history, after the assistant message of every text
   item before it; a run that has returned has handled them all, and its
   history ends with a function_call_output when no text item follows the
   last function call. *)
C28_TextAndCalls ==
    \A r \in Runs : \A k \in 1..Len(log[r]) :
        TextAndCalls(log[r][k]) =>
            /\ calls[r] = k
            /\ \A j \in 1..Len(log[r][k]) :
                  (log[r][k][j].type = "function_call" /\ Handled(r, k, j)) =>
                      /\ Cardinality(OutputsFor(input[r], log[r][k][j].call_id)) = 1
                      /\ \A o \in OutputsFor(input[r], log[r][k][j].call_id) :
                            \A j1 \in 1..(j - 1) :
                                HasOutputText(log[r][k][j1]) =>
                                    \E i \in 1..(o - 1) :
                                        /\ origin[r][i] = 0
                                        /\ IsAssistant(input[r][i])
            /\ Returned(r) =>
                  /\ HandledAll(r, k)
                  /\ NoTextAfterLastCall(log[r][k]) =>
                        Last(input[r]).type = "function_call_output"

\* a response of a text and then a call of a registered tool, and run has
\* returned
C28_Witness ==
    /\ Returned(1)
    /\ Len(log[1]) = 1
    /\ Len(log[1][1]) = 2
    /\ HasOutputText(log[1][1][1])
    /\ IsRegisteredCall(log[1][1][2])

----------------------------------------------------------------------------
(* The reply the route stores *)

\* where the assistant-role messages of h sit
AssistantIndices(h) == {i \in 1..Len(h) : h[i].role = "assistant"}

\* the last assistant-role message of h, which holds one
LastAssistant(h) ==
    h[CHOOSE i \in AssistantIndices(h) : \A j \in AssistantIndices(h) : j <= i]

\* the run has pushed no assistant message
AppendedNoAssistant(r) ==
    \A i \in 1..Len(PushedEntries(r)) : PushedEntries(r)[i].role # "assistant"

(* C30, as claimed: once run has returned, the route stores the content of
   the last assistant-role message of the returned history whenever there is
   one, and the apology only when there is none. *)
C30_StoredReplyVerbatim ==
    \A r \in Runs :
        Returned(r) =>
            /\ AssistantIndices(input[r]) # {} =>
                  reply[r] = LastAssistant(input[r]).content
            /\ reply[r] = Apology => AssistantIndices(input[r]) = {}

(* C30, amended: once run has returned, the route stores the content of the
   last assistant-role message of the returned history when there is one and
   its content is not the empty string, and the apology otherwise; so when
   the run appended no assistant message and the conversation it was given
   holds an assistant reply, that reply is stored again. *)
C30_StoredReply ==
    \A r \in Runs :
        Returned(r) =>
            /\ reply[r] =
                  IF AssistantIndices(input[r]) = {} THEN Apology
                  ELSE IF LastAssistant(input[r]).content.text = <<>> THEN Apology
                  ELSE LastAssistant(input[r]).content
            /\ (AppendedNoAssistant(r) /\ AssistantIndices(given[r]) # {}) =>
                  reply[r] = LastAssistant(given[r]).content

\* run left the loop on an unrecognised item, with no assistant message of
\* its own, and the earlier reply is stored once more
C30_Witness ==
    /\ Returned(1)
    /\ calls[1] = 1
    /\ \E j \in 1..Len(log[1][1]) : IsUnhandledType(log[1][1][j])
    /\ AppendedNoAssistant(1)
    /\ reply[1] = OldAssistant.content

=============================================================================
